---- MODULE Spec2Model ----
(***************************************************************************)
(* RTMiddleTier (app/backend/rtmt.py): a realtime gateway between a voice  *)
(* client and an upstream realtime API.  The model has one gateway object, *)
(* its class-level state, and the relay sessions that its websocket        *)
(* handler runs; each forwarding-loop iteration is one action.             *)
(***************************************************************************)
EXTENDS Integers, Sequences, FiniteSets, TLC

\* ------------------------------------------------------------------ bounds
MaxOutput == 2          \* longest response.output list upstream sends

\* ------------------------------------------------------------ JSON / text
\* Python None and JSON null (scalars are kept as their JSON text)
None == "null"

\* An Optional[...] is a sequence of length at most one.
Nothing == <<>>
Some(x) == <<x>>

\* A text frame's data is a string: the bytes as they came off the wire keep
\* their own formatting, json.dumps always produces the library's formatting.
json_loads(data) == data.val
json_dumps(value) == [fmt |-> "dumps", val |-> value]
Wire(value) == [fmt |-> "wire", val |-> value]

\* the JSON document `null`
JsonNull == [json |-> None]

\* d[k] = v on a dict (adds the key when it is missing)
SetKey(d, k, v) == [x \in (DOMAIN d) \cup {k} |-> IF x = k THEN v ELSE d[x]]

EmptyDict == [k \in {} |-> None]
DictLen(d) == Cardinality(DOMAIN d)

\* list.pop(i) for a 0-based index i that is in range
ListPop(lst, i) == [j \in 1..(Len(lst) - 1) |-> IF j <= i THEN lst[j] ELSE lst[j + 1]]

\* ------------------------------------------------------------- ToolResult
TO_SERVER == 1
TO_CLIENT == 2

\* ToolResult.text is None, a str, or some other JSON-serialisable value;
\* s is the string itself, or the json.dumps text of the non-string value.
TextNone == [t |-> "none", s |-> ""]
TextStr == [t |-> "str", s |-> "42"]
TextObj == [t |-> "obj", s |-> "{\"sources\": []}"]
Texts == {TextNone, TextStr, TextObj}

ToolResult(text, destination) == [text |-> text, destination |-> destination]

to_text(result) ==
    IF result.text.t = "none" THEN ""
    ELSE IF result.text.t = "str" THEN result.text.s
    ELSE result.text.s

\* What awaiting tool.target(args) can do: return a ToolResult or raise.
TargetReturns == { [raised |-> "none", result |-> ToolResult(t, d)] :
                      t \in Texts, d \in {TO_SERVER, TO_CLIENT} }
TargetRaises == [raised |-> "Exception", result |-> ToolResult(TextNone, TO_SERVER)]
TargetOutcomes == TargetReturns \cup {TargetRaises}

\* ------------------------------------------------------------------ Tool
Tool(name, schema) == [name |-> name, schema |-> schema]

\* RTMiddleTier.tools is a dict: insertion-ordered, keyed by tool name.
Registries == { <<>>,
                << Tool("search", "schema:search") >>,
                << Tool("search", "schema:search"),
                   Tool("report_grounding", "schema:report_grounding") >> }

ToolNames(reg) == { reg[i].name : i \in 1..Len(reg) }
ToolSchemas(reg) == [i \in 1..Len(reg) |-> reg[i].schema]

RTToolCall(tool_call_id, previous_id) ==
    [tool_call_id |-> tool_call_id, previous_id |-> previous_id]

\* ------------------------------------------- _process_message_to_client
\* What one call of a transform leaves behind: the value it returns (when it
\* returns), the pending-call dict, what it sent on each socket, the
\* ToolResult it obtained, and the exception that ended it ("none": returned).
Outcome(updated_message, pending, server_sent, client_sent, result, raised) ==
    [updated_message |-> updated_message, pending |-> pending,
     server_sent |-> server_sent, client_sent |-> client_sent,
     result |-> result, raised |-> raised]

Returned(updated_message, pending) ==
    Outcome(updated_message, pending, <<>>, <<>>, Nothing, "none")

IsFunctionCallItem(message) ==
    "item" \in DOMAIN message /\ message.item.type = "function_call"

\* faulty variant: the max-token limit is cleared but the instructions are kept
SessionCreated_KeepsInstructions(msg, message, pending, voice_choice) ==
    IF "session" \notin DOMAIN message
    THEN Outcome(Nothing, pending, <<>>, <<>>, Nothing, "KeyError")
    ELSE LET s2 == SetKey(message.session, "tools", <<>>)
             s3 == SetKey(s2, "voice", voice_choice)
             s4 == SetKey(s3, "tool_choice", "none")
             s5 == SetKey(s4, "max_response_output_tokens", None)
         IN Returned(Some(json_dumps(SetKey(message, "session", s5))), pending)

\* case "session.created"
SessionCreated(msg, message, pending, voice_choice) ==
    IF "session" \notin DOMAIN message
    THEN Outcome(Nothing, pending, <<>>, <<>>, Nothing, "KeyError")
    ELSE LET s1 == SetKey(message.session, "instructions", "")
             s2 == SetKey(s1, "tools", <<>>)
             s3 == SetKey(s2, "voice", voice_choice)
             s4 == SetKey(s3, "tool_choice", "none")
             s5 == SetKey(s4, "max_response_output_tokens", None)
         IN Returned(Some(json_dumps(SetKey(message, "session", s5))), pending)

\* faulty variant: the function_call item is let through to the client
OutputItemAdded_Forwarded(msg, message, pending) ==
    Returned(Some(msg.data), pending)

\* case "response.output_item.added"
OutputItemAdded(msg, message, pending) ==
    IF IsFunctionCallItem(message)
    THEN Returned(Nothing, pending)
    ELSE Returned(Some(msg.data), pending)

\* faulty variant: a repeated announcement replaces the stored entry
ConversationItemCreated_Overwrites(msg, message, pending) ==
    IF IsFunctionCallItem(message)
    THEN IF "previous_item_id" \notin DOMAIN message
         THEN Outcome(Nothing, pending, <<>>, <<>>, Nothing, "KeyError")
         ELSE Returned(Nothing,
                       SetKey(pending, message.item.call_id,
                              RTToolCall(message.item.call_id, message.previous_item_id)))
    ELSE IF "item" \in DOMAIN message /\ message.item.type = "function_call_output"
    THEN Returned(Nothing, pending)
    ELSE Returned(Some(msg.data), pending)

\* case "conversation.item.created"
ConversationItemCreated(msg, message, pending) ==
    IF IsFunctionCallItem(message)
    THEN LET item == message.item
         IN IF item.call_id \notin DOMAIN pending
            THEN IF "previous_item_id" \notin DOMAIN message
                 THEN Outcome(Nothing, pending, <<>>, <<>>, Nothing, "KeyError")
                 ELSE Returned(Nothing,
                               SetKey(pending, item.call_id,
                                      RTToolCall(item.call_id, message.previous_item_id)))
            ELSE Returned(Nothing, pending)
    ELSE IF "item" \in DOMAIN message /\ message.item.type = "function_call_output"
    THEN Returned(Nothing, pending)
    ELSE Returned(Some(msg.data), pending)

\* case "response.function_call_arguments.delta"
FunctionCallArgumentsDelta(msg, message, pending) == Returned(Nothing, pending)

\* case "response.function_call_arguments.done"
FunctionCallArgumentsDone(msg, message, pending) == Returned(Nothing, pending)

\* json.loads(args) of the item's arguments string raises on malformed text
ValidArguments == "{\"q\": \"x\"}"
MalformedArguments == "{\"q\": "
ArgumentsParse(args) == args = ValidArguments

\* the conversation.item.create the gateway sends upstream after a tool call
FunctionCallOutput(call_id, result) ==
    json_dumps([type |-> "conversation.item.create",
                item |-> [type |-> "function_call_output",
                          call_id |-> call_id,
                          output |-> IF result.destination = TO_SERVER
                                     THEN to_text(result) ELSE ""]])

\* the extension message the gateway sends the client for a TO_CLIENT result
ToolResponse(tool_call, name, result) ==
    json_dumps([type |-> "extension.middle_tier_tool_response",
                previous_item_id |-> tool_call.previous_id,
                tool_name |-> name,
                tool_result |-> to_text(result)])

\* faulty variant: the tool is called but its output is not sent upstream
OutputItemDone_Unanswered(msg, message, pending, registry, call) ==
    IF IsFunctionCallItem(message)
    THEN LET item == message.item
         IN IF item.call_id \notin DOMAIN pending
            THEN Outcome(Nothing, pending, <<>>, <<>>, Nothing, "KeyError")
            ELSE IF item.name \notin ToolNames(registry)
            THEN Outcome(Nothing, pending, <<>>, <<>>, Nothing, "KeyError")
            ELSE IF ~ArgumentsParse(item.arguments)
            THEN Outcome(Nothing, pending, <<>>, <<>>, Nothing, "JSONDecodeError")
            ELSE IF call.raised # "none"
            THEN Outcome(Nothing, pending, <<>>, <<>>, Nothing, call.raised)
            ELSE Outcome(Nothing, pending, <<>>, <<>>, Some(call.result), "none")
    ELSE Returned(Some(msg.data), pending)

\* case "response.output_item.done"; call is what tool.target(...) does
OutputItemDone(msg, message, pending, registry, call) ==
    IF IsFunctionCallItem(message)
    THEN LET item == message.item
         IN IF item.call_id \notin DOMAIN pending
            THEN Outcome(Nothing, pending, <<>>, <<>>, Nothing, "KeyError")
            ELSE IF item.name \notin ToolNames(registry)
            THEN Outcome(Nothing, pending, <<>>, <<>>, Nothing, "KeyError")
            ELSE IF ~ArgumentsParse(item.arguments)
            THEN Outcome(Nothing, pending, <<>>, <<>>, Nothing, "JSONDecodeError")
            ELSE IF call.raised # "none"
            THEN Outcome(Nothing, pending, <<>>, <<>>, Nothing, call.raised)
            ELSE LET tool_call == pending[item.call_id]
                     result == call.result
                 IN Outcome(Nothing, pending,
                            << FunctionCallOutput(item.call_id, result) >>,
                            IF result.destination = TO_CLIENT
                            THEN << ToolResponse(tool_call, item.name, result) >>
                            ELSE <<>>,
                            Some(result), "none")
    ELSE Returned(Some(msg.data), pending)

\* for i, output in enumerate(reversed(output)): ... output.pop(i)
\* it is the list_reverseiterator's index (0-based), i the enumerate counter;
\* the iterator stops as soon as its index is outside the (shrinking) list.
RECURSIVE PopFunctionCalls(_, _, _, _)
PopFunctionCalls(output, it, i, replace) ==
    IF it < 0 \/ it >= Len(output)
    THEN [raised |-> "none", output |-> output, replace |-> replace]
    ELSE IF output[it + 1].type = "function_call"
    THEN IF i >= Len(output)
         THEN [raised |-> "IndexError", output |-> output, replace |-> replace]
         ELSE PopFunctionCalls(ListPop(output, i), it - 1, i + 1, TRUE)
    ELSE PopFunctionCalls(output, it - 1, i + 1, replace)

ResponseCreate == json_dumps([type |-> "response.create"])

\* faulty variant: the new response is requested but the table is not cleared
ResponseDoneClear_NoClear(pending) ==
    IF DictLen(pending) > 0
    THEN [pending |-> pending, server_sent |-> << ResponseCreate >>]
    ELSE [pending |-> pending, server_sent |-> <<>>]

\* first half of case "response.done": clear the table, ask for a new response
ResponseDoneClear(pending) ==
    IF DictLen(pending) > 0
    THEN [pending |-> EmptyDict, server_sent |-> << ResponseCreate >>]
    ELSE [pending |-> pending, server_sent |-> <<>>]

\* case "response.done"
ResponseDone(msg, message, pending) ==
    LET c == ResponseDoneClear(pending)
    IN IF "response" \in DOMAIN message
       THEN IF "output" \notin DOMAIN message.response
            THEN Outcome(Nothing, c.pending, c.server_sent, <<>>, Nothing, "KeyError")
            ELSE LET output == message.response.output
                     r == PopFunctionCalls(output, Len(output) - 1, 0, FALSE)
                     edited == SetKey(message, "response",
                                      SetKey(message.response, "output", r.output))
                 IN IF r.raised # "none"
                    THEN Outcome(Nothing, c.pending, c.server_sent, <<>>, Nothing, r.raised)
                    ELSE Outcome(IF r.replace THEN Some(json_dumps(edited))
                                 ELSE Some(msg.data),
                                 c.pending, c.server_sent, <<>>, Nothing, "none")
       ELSE Outcome(Some(msg.data), c.pending, c.server_sent, <<>>, Nothing, "none")

\* true when the transform awaits tool.target for this message
InvokesTool(message, pending, registry) ==
    /\ message # JsonNull
    /\ message.type = "response.output_item.done"
    /\ IsFunctionCallItem(message)
    /\ message.item.call_id \in DOMAIN pending
    /\ message.item.name \in ToolNames(registry)
    /\ ArgumentsParse(message.item.arguments)

process_message_to_client(msg, pending, registry, voice_choice, call) ==
    LET message == json_loads(msg.data)
    IN IF message = JsonNull THEN Returned(Some(msg.data), pending)
       ELSE CASE message.type = "session.created" ->
                     SessionCreated(msg, message, pending, voice_choice)
              [] message.type = "response.output_item.added" ->
                     OutputItemAdded(msg, message, pending)
              [] message.type = "conversation.item.created" ->
                     ConversationItemCreated(msg, message, pending)
              [] message.type = "response.function_call_arguments.delta" ->
                     FunctionCallArgumentsDelta(msg, message, pending)
              [] message.type = "response.function_call_arguments.done" ->
                     FunctionCallArgumentsDone(msg, message, pending)
              [] message.type = "response.output_item.done" ->
                     OutputItemDone(msg, message, pending, registry, call)
              [] message.type = "response.done" ->
                     ResponseDone(msg, message, pending)
              [] OTHER -> Returned(Some(msg.data), pending)

\* ------------------------------------------- _process_message_to_server
\* the server-enforced attributes of the gateway (None: not set)
ServerConfig(system_message, temperature, max_tokens, disable_audio, voice_choice) ==
    [system_message |-> system_message, temperature |-> temperature,
     max_tokens |-> max_tokens, disable_audio |-> disable_audio,
     voice_choice |-> voice_choice]

\* faulty variant: a value the client supplied is kept
Override_ClientWins(session, key, value) ==
    IF value # None /\ key \notin DOMAIN session
    THEN SetKey(session, key, value) ELSE session

Override(session, key, value) ==
    IF value # None THEN SetKey(session, key, value) ELSE session

\* case "session.update"
SessionUpdate(msg, message, cfg, registry) ==
    IF "session" \notin DOMAIN message
    THEN Outcome(Nothing, EmptyDict, <<>>, <<>>, Nothing, "KeyError")
    ELSE LET s1 == Override(message.session, "instructions", cfg.system_message)
             s2 == Override(s1, "temperature", cfg.temperature)
             s3 == Override(s2, "max_response_output_tokens", cfg.max_tokens)
             s4 == Override(s3, "disable_audio", cfg.disable_audio)
             s5 == Override(s4, "voice", cfg.voice_choice)
             s6 == SetKey(s5, "tool_choice", IF Len(registry) > 0 THEN "auto" ELSE "none")
             s7 == SetKey(s6, "tools", ToolSchemas(registry))
         IN Returned(Some(json_dumps(SetKey(message, "session", s7))), EmptyDict)

process_message_to_server(msg, cfg, registry) ==
    LET message == json_loads(msg.data)
    IN IF message = JsonNull THEN Returned(Some(msg.data), EmptyDict)
       ELSE IF message.type = "session.update"
       THEN SessionUpdate(msg, message, cfg, registry)
       ELSE Returned(Some(msg.data), EmptyDict)

\* ------------------------------------------------------------ Voice Live
\* dict.get(key, default)
Get(d, k, default) == IF k \in DOMAIN d THEN d[k] ELSE default

\* the configuration message sent right after the Voice Live handshake
VoiceLiveConfiguration(cfg, voice_live_voice, registry) ==
    json_dumps([type |-> "configuration",
                config |-> [voice |-> IF voice_live_voice # None
                                      THEN voice_live_voice ELSE "default",
                            system_message |-> IF cfg.system_message # None
                                               THEN cfg.system_message
                                               ELSE "You are a helpful assistant.",
                            tools |-> ToolSchemas(registry)]])

\* body of from_client_to_voice_live for one text frame
client_to_voice_live(msg) ==
    LET data == json_loads(msg.data)
    IN IF data = JsonNull
       THEN Outcome(Nothing, EmptyDict, <<>>, <<>>, Nothing, "AttributeError")
       ELSE IF Get(data, "type", None) = "input_audio_buffer.append"
       THEN IF "audio" \notin DOMAIN data
            THEN Outcome(Nothing, EmptyDict, <<>>, <<>>, Nothing, "KeyError")
            ELSE Outcome(Nothing, EmptyDict,
                         << json_dumps([type |-> "audio_input", audio |-> data.audio]) >>,
                         <<>>, Nothing, "none")
       ELSE IF Get(data, "type", None) = "session.update"
       THEN Outcome(Nothing, EmptyDict,
                    << json_dumps([type |-> "session_update",
                                   session |-> Get(data, "session", EmptyDict)]) >>,
                    <<>>, Nothing, "none")
       ELSE Returned(Nothing, EmptyDict)

\* bool(result.text)
Truthy(text) == text.t # "none" /\ text.s # ""

\* _process_voice_live_rag; search and grounding are what the two tools do
process_voice_live_rag(user_text, registry, search, grounding) ==
    IF "search" \notin ToolNames(registry) THEN Returned(Nothing, EmptyDict)
    ELSE IF search.raised # "none" THEN Returned(Nothing, EmptyDict)
    ELSE LET search_result == search.result
             context == json_dumps([type |-> "context_update",
                                    context |-> to_text(search_result),
                                    query |-> user_text])
         IN IF "report_grounding" \in ToolNames(registry) /\ Truthy(search_result.text)
            THEN IF grounding.raised # "none"
                 THEN Outcome(Nothing, EmptyDict, << context >>, <<>>, Nothing, "none")
                 ELSE Outcome(Nothing, EmptyDict, << context >>,
                              IF grounding.result.destination = TO_CLIENT
                              THEN << json_dumps([type |-> "extension.middle_tier_tool_response",
                                                  tool_name |-> "report_grounding",
                                                  tool_result |-> to_text(grounding.result)]) >>
                              ELSE <<>>,
                              Nothing, "none")
            ELSE Outcome(Nothing, EmptyDict, << context >>, <<>>, Nothing, "none")

\* _process_voice_live_function_call; call is what tool.target(...) does
process_voice_live_function_call(data, registry, call) ==
    LET function_name == Get(data, "name", None)
        call_id == Get(data, "call_id", None)
    IN IF function_name \in ToolNames(registry)
       THEN IF call.raised # "none" THEN Returned(Nothing, EmptyDict)
            ELSE LET result == call.result
                 IN Outcome(Nothing, EmptyDict,
                            << json_dumps([type |-> "function_result",
                                           call_id |-> call_id,
                                           result |-> to_text(result)]) >>,
                            IF result.destination = TO_CLIENT
                            THEN << json_dumps([type |-> "extension.middle_tier_tool_response",
                                                tool_name |-> function_name,
                                                tool_result |-> to_text(result)]) >>
                            ELSE <<>>,
                            Some(result), "none")
       ELSE Returned(Nothing, EmptyDict)

\* body of from_voice_live_to_client for one text frame
voice_live_to_client(msg, registry, call, grounding) ==
    LET data == json_loads(msg.data)
    IN IF data = JsonNull
       THEN Outcome(Nothing, EmptyDict, <<>>, <<>>, Nothing, "AttributeError")
       ELSE IF Get(data, "type", None) = "audio_output"
       THEN IF "audio" \notin DOMAIN data
            THEN Outcome(Nothing, EmptyDict, <<>>, <<>>, Nothing, "KeyError")
            ELSE Outcome(Nothing, EmptyDict, <<>>,
                         << json_dumps([type |-> "response.audio.delta",
                                        delta |-> data.audio]) >>,
                         Nothing, "none")
       ELSE IF Get(data, "type", None) = "text_response"
       THEN LET text == Get(data, "text", "")
            IN IF text # "" /\ Len(registry) > 0
               THEN process_voice_live_rag(text, registry, call, grounding)
               ELSE Returned(Nothing, EmptyDict)
       ELSE IF Get(data, "type", None) = "function_call"
       THEN process_voice_live_function_call(data, registry, call)
       ELSE Returned(Nothing, EmptyDict)

\* ---------------------------------------------------------------- frames
TextFrame(value) == [type |-> "TEXT", data |-> Wire(value)]
BinaryFrame == [type |-> "BINARY", data |-> [fmt |-> "bytes", val |-> JsonNull]]
NoFrame == [type |-> "NONE", data |-> [fmt |-> "none", val |-> JsonNull]]

CallIds == {"c1", "c2"}
PrevIds == {"p1", "p2"}
FunctionNames == {"search", "report_grounding", "lookup"}

\* response.output lists: entry i is a function_call or a message
OutputLists ==
    UNION { { [i \in 1..n |-> [type |-> kinds[i], id |-> i]] :
                kinds \in [1..n -> {"function_call", "message"}] } : n \in 0..MaxOutput }

\* what the upstream may send (both backends' vocabularies)
UpstreamMessages ==
    { [type |-> "session.created",
       session |-> [instructions |-> "secret", tools |-> << "schema:search" >>,
                    voice |-> "alloy", tool_choice |-> "auto",
                    max_response_output_tokens |-> "4096"]] }
    \cup { [type |-> "response.output_item.added", item |-> [type |-> t]] :
             t \in {"function_call", "message"} }
    \cup { [type |-> "conversation.item.created", previous_item_id |-> p,
            item |-> [type |-> "function_call", call_id |-> c]] :
             c \in CallIds, p \in PrevIds }
    \cup { [type |-> "conversation.item.created", previous_item_id |-> "p1",
            item |-> [type |-> t]] : t \in {"function_call_output", "message"} }
    \cup { [type |-> "response.function_call_arguments.delta", delta |-> "{"],
           [type |-> "response.function_call_arguments.done",
            arguments |-> ValidArguments] }
    \cup { [type |-> "response.output_item.done",
            item |-> [type |-> "function_call", call_id |-> c, name |-> n,
                      arguments |-> ValidArguments]] :
             c \in CallIds, n \in FunctionNames }
    \cup { [type |-> "response.output_item.done",
            item |-> [type |-> "function_call", call_id |-> "c1", name |-> "search",
                      arguments |-> MalformedArguments]],
           [type |-> "response.output_item.done", item |-> [type |-> "message"]] }
    \cup { [type |-> "response.done", response |-> [output |-> o]] : o \in OutputLists }
    \cup { [type |-> "response.done"],
           [type |-> "response.audio.delta", delta |-> "AAAA"],
           [type |-> "audio_output", audio |-> "AAAA"],
           [type |-> "text_response", text |-> "hi"],
           [type |-> "text_response"],
           JsonNull }
    \cup { [type |-> "function_call", name |-> n, call_id |-> "c1",
            arguments |-> ValidArguments] : n \in FunctionNames }

\* what the client may send
ClientMessages ==
    { [type |-> "session.update", session |-> [voice |-> "x"]],
      [type |-> "session.update",
       session |-> [voice |-> "x", instructions |-> "mine", temperature |-> "0.1",
                    tools |-> << "schema:client" >>, tool_choice |-> "required"]],
      [type |-> "session.update"],
      [type |-> "input_audio_buffer.append", audio |-> "AAAA"],
      [type |-> "response.create"],
      JsonNull }

\* the part of the upstream vocabulary that drives the pending-call table
CallMessages ==
    { [type |-> "conversation.item.created", previous_item_id |-> p,
       item |-> [type |-> "function_call", call_id |-> "c1"]] : p \in PrevIds }
    \cup { [type |-> "response.output_item.done",
            item |-> [type |-> "function_call", call_id |-> "c1", name |-> n,
                      arguments |-> ValidArguments]] : n \in {"search", "lookup"} }
    \cup { [type |-> "response.done"],
           [type |-> "response.done",
            response |-> [output |-> << [type |-> "function_call", id |-> 1] >>]] }

\* The frames a socket may deliver: everything, or (for runs that interleave
\* two sessions) the frames of the function-call protocol only.
UpstreamFrames(vocabulary) ==
    IF vocabulary = "all"
    THEN { TextFrame(m) : m \in UpstreamMessages } \cup {BinaryFrame}
    ELSE { TextFrame(m) : m \in CallMessages }
ClientFrames(vocabulary) ==
    IF vocabulary = "all"
    THEN { TextFrame(m) : m \in ClientMessages } \cup {BinaryFrame}
    ELSE { TextFrame([type |-> "response.create"]) }

\* the configurations the gateway may be constructed and set up with
ServerConfigs ==
    { ServerConfig(None, None, None, None, None),
      ServerConfig(None, None, "1024", None, "shimmer"),
      ServerConfig("system", "0.7", "1024", "true", "shimmer") }

Sessions == {"s1", "s2"}

\* ----------------------------------------------------------------- state
VARIABLES
    vocabulary,       \* which frames the sockets deliver in this run, and
                      \* ("order") whether call_history is kept
    tools,            \* RTMiddleTier.tools
    use_voice_live,   \* RTMiddleTier.use_voice_live
    config,           \* the server-enforced attributes of the gateway
    key,              \* RTMiddleTier.key (None: a token provider is used)
    tools_pending,    \* RTMiddleTier._tools_pending (a class attribute)
    handler,          \* per session: where _websocket_handler is
    c2s,              \* per session: the client-to-upstream loop
    s2c,              \* per session: the upstream-to-client loop
    ws,               \* per session: the client socket
    target_ws,        \* per session: the upstream socket
    event,            \* the last step: operation, session, frame handled
    handshake,        \* the upstream handshake that step made, if any
    pending_before,   \* _tools_pending when that step began
    server_sent,      \* what that step sent on the upstream socket
    client_sent,      \* what that step sent on the client socket
    result,           \* the ToolResult that step obtained, if any
    raised,           \* the exception that ended that step ("none": none)
    session_pending,  \* history: per session, the calls it announced itself
    call_history      \* history: per session, the calls completed, answered
                      \* and cleared so far
                      \* since its own last response.done

vars == << vocabulary, tools, use_voice_live, config, key, tools_pending, handler, c2s,
           s2c, ws, target_ws, event, handshake, pending_before, server_sent, client_sent,
           result, raised, session_pending, call_history >>

gateway == << vocabulary, tools, use_voice_live, config, key >>

history == << session_pending, call_history >>

\* ------------------------------------------------- the upstream handshake
\* what the inbound request may carry as x-ms-client-request-id (None: absent)
RequestIds == {None, "rid-1"}

\* ws.headers: the headers of the prepared WebSocketResponse, which are the
\* response's own and hold nothing of the request
ResponseHeaders == [k \in {"Upgrade", "Connection"} |->
                       IF k = "Upgrade" THEN "websocket" ELSE "upgrade"]

\* self._token_provider()
token_provider == "token-1"
Keys == {None, "key-1"}

\* the headers _forward_messages_openai_realtime hands to ws_connect: the
\* dict holding the copied request id is replaced by a new dict that holds
\* the authentication header alone
openai_realtime_headers(ws_headers, api_key) ==
    LET copied == IF "x-ms-client-request-id" \in DOMAIN ws_headers
                  THEN SetKey(EmptyDict, "x-ms-client-request-id",
                              ws_headers["x-ms-client-request-id"])
                  ELSE EmptyDict
    IN IF api_key # None THEN SetKey(EmptyDict, "api-key", api_key)
       ELSE SetKey(EmptyDict, "Authorization", "Bearer " \o token_provider)

\* the headers _forward_messages_voice_live hands to ws_connect
ai_foundry_key == "foundry-key"
voice_live_headers == SetKey(EmptyDict, "api-key", ai_foundry_key)

Handshake(request_id, headers) == [request_id |-> request_id, headers |-> headers]
NoHandshake == Handshake(None, EmptyDict)

Event(op, session, frame) == [op |-> op, session |-> session, frame |-> frame]

\* the call ids of the function-call outputs among the messages sent upstream
OutputCallIds(sent) ==
    { json_loads(sent[i]).item.call_id :
        i \in { j \in DOMAIN sent :
                   /\ "item" \in DOMAIN json_loads(sent[j])
                   /\ json_loads(sent[j]).item.type = "function_call_output" } }

\* What one session has seen of its calls, in the order the upstream loop
\* handled the frames:
\*   completed  call ids whose output_item.done was handled since the
\*              session's last response.done
\*   answered   call ids a function-call output went upstream for since then
\*   cleared    call ids the session announced, whose registration a
\*              response.done of the session ended, and which it has not
\*              announced again
NoCalls == [completed |-> {}, answered |-> {}, cleared |-> {}]

Recorded(h, own, frame, sent) ==
    LET message == json_loads(frame.data)
    IN IF frame.type # "TEXT" \/ message = JsonNull THEN h
       ELSE IF message.type = "conversation.item.created" /\ IsFunctionCallItem(message)
       THEN [h EXCEPT !.cleared = @ \ {message.item.call_id}]
       ELSE IF message.type = "response.output_item.done" /\ IsFunctionCallItem(message)
       THEN [h EXCEPT !.completed = @ \cup {message.item.call_id},
                      !.answered = @ \cup OutputCallIds(sent)]
       ELSE IF message.type = "response.done"
       THEN [completed |-> {}, answered |-> {}, cleared |-> h.cleared \cup DOMAIN own]
       ELSE h

\* The calls one session has announced and not yet closed with a response.done
\* of its own: what a pending-call table owned by the session would hold.
Announced(own, frame) ==
    LET message == json_loads(frame.data)
    IN IF frame.type # "TEXT" \/ message = JsonNull THEN own
       ELSE IF message.type = "conversation.item.created" /\ IsFunctionCallItem(message)
       THEN IF message.item.call_id \in DOMAIN own THEN own
            ELSE SetKey(own, message.item.call_id,
                        RTToolCall(message.item.call_id, message.previous_item_id))
       ELSE IF message.type = "response.done" THEN EmptyDict
       ELSE own

\* everything but the gateway's construction-time attributes
InitSessions ==
    /\ tools_pending = EmptyDict
    /\ handler = [s \in Sessions |-> "idle"]
    /\ c2s = [s \in Sessions |-> "idle"]
    /\ s2c = [s \in Sessions |-> "idle"]
    /\ ws = [s \in Sessions |-> "none"]
    /\ target_ws = [s \in Sessions |-> "none"]
    /\ event = Event("init", "s1", NoFrame)
    /\ handshake = NoHandshake
    /\ pending_before = EmptyDict
    /\ server_sent = <<>>
    /\ client_sent = <<>>
    /\ result = Nothing
    /\ raised = "none"
    /\ session_pending = [s \in Sessions |-> EmptyDict]
    /\ call_history = [s \in Sessions |-> NoCalls]

Init ==
    /\ vocabulary = "all"
    /\ tools \in Registries
    /\ use_voice_live \in BOOLEAN
    /\ config \in ServerConfigs
    /\ key = "key-1"
    /\ InitSessions

\* the step's record, for an operation that sends nothing and calls no tool
Quiet(op, s) ==
    /\ event' = Event(op, s, NoFrame)
    /\ handshake' = NoHandshake
    /\ pending_before' = tools_pending
    /\ server_sent' = <<>>
    /\ client_sent' = <<>>
    /\ result' = Nothing
    /\ raised' = "none"

\* _websocket_handler up to the start of asyncio.gather: the client socket is
\* prepared, the upstream socket connected, both loops started
websocket_handler(s) ==
    /\ handler[s] = "idle"
    /\ handler' = [handler EXCEPT ![s] = "relaying"]
    /\ c2s' = [c2s EXCEPT ![s] = "running"]
    /\ s2c' = [s2c EXCEPT ![s] = "running"]
    /\ ws' = [ws EXCEPT ![s] = "open"]
    /\ target_ws' = [target_ws EXCEPT ![s] = "open"]
    /\ event' = Event("websocket_handler", s, NoFrame)
    /\ \E request_id \in RequestIds :
          handshake' = Handshake(request_id,
                                 IF use_voice_live THEN voice_live_headers
                                 ELSE openai_realtime_headers(ResponseHeaders, key))
    /\ pending_before' = tools_pending
    /\ server_sent' = IF use_voice_live
                      THEN << VoiceLiveConfiguration(config, None, tools) >>
                      ELSE <<>>
    /\ client_sent' = <<>>
    /\ result' = Nothing
    /\ raised' = "none"
    /\ UNCHANGED << gateway, tools_pending, history >>

\* faulty variant: ConnectionResetError is not caught
AfterLoopStep_ResetPropagates(s, loop, r) ==
    IF r.raised = "none"
    THEN UNCHANGED << handler, c2s, s2c, ws, target_ws >>
    ELSE /\ handler' = [handler EXCEPT ![s] = "raised"]
         /\ c2s' = IF loop = "c2s" THEN [c2s EXCEPT ![s] = "raised"] ELSE c2s
         /\ s2c' = IF loop = "s2c" THEN [s2c EXCEPT ![s] = "raised"] ELSE s2c
         /\ ws' = [ws EXCEPT ![s] = "closed"]
         /\ target_ws' = [target_ws EXCEPT ![s] = "closed"]

\* An exception other than ConnectionResetError leaves asyncio.gather, the
\* async-with blocks (closing the upstream socket) and the handler; the
\* server then drops the client connection.  ConnectionResetError is caught.
AfterLoopStep(s, loop, r) ==
    IF r.raised = "none"
    THEN UNCHANGED << handler, c2s, s2c, ws, target_ws >>
    ELSE /\ handler' = [handler EXCEPT ![s] = IF r.raised = "ConnectionResetError"
                                               THEN "returned" ELSE "raised"]
         /\ c2s' = IF loop = "c2s" THEN [c2s EXCEPT ![s] = "raised"] ELSE c2s
         /\ s2c' = IF loop = "s2c" THEN [s2c EXCEPT ![s] = "raised"] ELSE s2c
         /\ ws' = [ws EXCEPT ![s] = "closed"]
         /\ target_ws' = [target_ws EXCEPT ![s] = "closed"]

\* faulty variant: a frame that is not TEXT is forwarded as it came
Unexpected_Forwarded(frame, pending) == Returned(Some(frame.data), pending)

\* the else branch of a loop: a frame that is not TEXT is reported with
\* print, handed to no transform and not sent on
Unexpected(frame, pending) == Returned(Nothing, pending)

\* a send on a socket that is already closed raises ConnectionResetError:
\* what the iteration was about to send there is not sent
ClientSendReset(r) ==
    [r EXCEPT !.updated_message = Nothing, !.client_sent = <<>>,
              !.raised = "ConnectionResetError"]

ServerSendReset(r) ==
    [r EXCEPT !.updated_message = Nothing, !.server_sent = <<>>,
              !.raised = "ConnectionResetError"]

\* tool.target is awaited only on some paths; elsewhere the choice is unused
Calls(invokes) == IF invokes THEN TargetOutcomes ELSE {TargetRaises}

\* one iteration of from_server_to_client (Legacy-Realtime backend)
from_server_to_client(s) ==
    /\ ~use_voice_live
    /\ handler[s] = "relaying" /\ s2c[s] = "running" /\ target_ws[s] = "open"
    /\ \E frame \in UpstreamFrames(vocabulary) :
       \E call \in Calls(frame.type = "TEXT"
                         /\ InvokesTool(json_loads(frame.data), tools_pending, tools)) :
         LET t == IF frame.type = "TEXT"
                  THEN process_message_to_client(frame, tools_pending, tools,
                                                 config.voice_choice, call)
                  ELSE Unexpected(frame, tools_pending)
             r == IF /\ ws[s] = "closed" /\ t.raised = "none"
                     /\ t.client_sent \o t.updated_message # <<>>
                  THEN ClientSendReset(t) ELSE t
         IN /\ tools_pending' = r.pending
            /\ event' = Event("from_server_to_client", s, frame)
            /\ handshake' = NoHandshake
            /\ pending_before' = tools_pending
            /\ server_sent' = r.server_sent
            /\ client_sent' = r.client_sent \o
                              (IF r.raised = "none" THEN r.updated_message ELSE <<>>)
            /\ result' = r.result
            /\ raised' = r.raised
            /\ session_pending' = [session_pending EXCEPT ![s] = Announced(@, frame)]
            /\ call_history' =
                  IF vocabulary = "order"
                  THEN [call_history EXCEPT
                          ![s] = Recorded(@, session_pending[s], frame, r.server_sent)]
                  ELSE call_history
            /\ AfterLoopStep(s, "s2c", r)
    /\ UNCHANGED gateway

\* one iteration of from_client_to_server (Legacy-Realtime backend)
from_client_to_server(s) ==
    /\ ~use_voice_live
    /\ c2s[s] = "running" /\ ws[s] = "open"
    /\ \E frame \in ClientFrames(vocabulary) :
         LET t == IF frame.type = "TEXT"
                  THEN process_message_to_server(frame, config, tools)
                  ELSE Unexpected(frame, EmptyDict)
             r == IF /\ target_ws[s] = "closed" /\ t.raised = "none"
                     /\ t.updated_message # <<>>
                  THEN ServerSendReset(t) ELSE t
         IN /\ event' = Event("from_client_to_server", s, frame)
            /\ handshake' = NoHandshake
            /\ pending_before' = tools_pending
            /\ server_sent' = IF r.raised = "none" THEN r.updated_message ELSE <<>>
            /\ client_sent' = <<>>
            /\ result' = Nothing
            /\ raised' = r.raised
            /\ AfterLoopStep(s, "c2s", r)
    /\ UNCHANGED << gateway, tools_pending, history >>

\* one iteration of from_client_to_voice_live
from_client_to_voice_live(s) ==
    /\ use_voice_live
    /\ c2s[s] = "running" /\ ws[s] = "open"
    /\ \E frame \in ClientFrames(vocabulary) :
         LET t == IF frame.type = "TEXT" THEN client_to_voice_live(frame)
                  ELSE Unexpected(frame, EmptyDict)
             r == IF /\ target_ws[s] = "closed" /\ t.raised = "none"
                     /\ t.server_sent # <<>>
                  THEN ServerSendReset(t) ELSE t
         IN /\ event' = Event("from_client_to_voice_live", s, frame)
            /\ handshake' = NoHandshake
            /\ pending_before' = tools_pending
            /\ server_sent' = r.server_sent
            /\ client_sent' = <<>>
            /\ result' = Nothing
            /\ raised' = r.raised
            /\ AfterLoopStep(s, "c2s", r)
    /\ UNCHANGED << gateway, tools_pending, history >>

\* true when from_voice_live_to_client awaits a tool for this frame
VoiceLiveInvokes(frame, registry) ==
    /\ frame.type = "TEXT"
    /\ json_loads(frame.data) # JsonNull
    /\ \/ /\ Get(json_loads(frame.data), "type", None) = "function_call"
          /\ Get(json_loads(frame.data), "name", None) \in ToolNames(registry)
       \/ /\ Get(json_loads(frame.data), "type", None) = "text_response"
          /\ Get(json_loads(frame.data), "text", "") # ""
          /\ "search" \in ToolNames(registry)

\* one iteration of from_voice_live_to_client
from_voice_live_to_client(s) ==
    /\ use_voice_live
    /\ handler[s] = "relaying" /\ s2c[s] = "running" /\ target_ws[s] = "open"
    /\ \E frame \in UpstreamFrames(vocabulary) :
       \E call \in Calls(VoiceLiveInvokes(frame, tools)) :
       \E grounding \in Calls(VoiceLiveInvokes(frame, tools)
                              /\ json_loads(frame.data).type = "text_response"
                              /\ "report_grounding" \in ToolNames(tools)
                              /\ call.raised = "none" /\ Truthy(call.result.text)) :
         LET t == IF frame.type = "TEXT"
                  THEN voice_live_to_client(frame, tools, call, grounding)
                  ELSE Unexpected(frame, EmptyDict)
             \* the forward of audio_output is outside any try block; the
             \* sends of the two tool helpers are inside try/except Exception
             r == IF ws[s] = "closed" /\ t.raised = "none" /\ t.client_sent # <<>>
                  THEN IF json_loads(frame.data).type = "audio_output"
                       THEN ClientSendReset(t)
                       ELSE [t EXCEPT !.client_sent = <<>>]
                  ELSE t
         IN /\ event' = Event("from_voice_live_to_client", s, frame)
            /\ handshake' = NoHandshake
            /\ pending_before' = tools_pending
            /\ server_sent' = r.server_sent
            /\ client_sent' = r.client_sent
            /\ result' = r.result
            /\ raised' = r.raised
            /\ AfterLoopStep(s, "s2c", r)
    /\ UNCHANGED << gateway, tools_pending, history >>

\* the client closes its socket
client_closes(s) ==
    /\ ws[s] = "open"
    /\ ws' = [ws EXCEPT ![s] = "closed"]
    /\ Quiet("client_closes", s)
    /\ UNCHANGED << gateway, tools_pending, history, handler, c2s, s2c,
                    target_ws >>

\* the upstream closes its socket
upstream_closes(s) ==
    /\ target_ws[s] = "open"
    /\ target_ws' = [target_ws EXCEPT ![s] = "closed"]
    /\ Quiet("upstream_closes", s)
    /\ UNCHANGED << gateway, tools_pending, history, handler, c2s, s2c, ws >>

\* faulty variant: the client loop ends without closing the upstream socket
client_loop_ends_LeavesUpstreamOpen(s) ==
    /\ c2s[s] = "running" /\ ws[s] = "closed"
    /\ c2s' = [c2s EXCEPT ![s] = "done"]
    /\ Quiet("client_loop_ends", s)
    /\ UNCHANGED << gateway, tools_pending, history, handler, s2c, ws,
                    target_ws >>

\* the client socket is closed: the client loop's async-for ends;
\* from_client_to_server then closes the upstream socket, the Voice Live
\* loop does not
client_loop_ends(s) ==
    /\ c2s[s] = "running" /\ ws[s] = "closed"
    /\ c2s' = [c2s EXCEPT ![s] = "done"]
    /\ ws' = ws
    /\ target_ws' = IF use_voice_live THEN target_ws
                    ELSE [target_ws EXCEPT ![s] = "closed"]
    /\ Quiet("client_loop_ends", s)
    /\ UNCHANGED << gateway, tools_pending, history, handler, s2c >>

\* the upstream socket is closed (by the upstream, or by the client loop):
\* the upstream loop's async-for ends
server_loop_ends(s) ==
    /\ s2c[s] = "running" /\ target_ws[s] = "closed"
    /\ s2c' = [s2c EXCEPT ![s] = "done"]
    /\ target_ws' = target_ws
    /\ Quiet("server_loop_ends", s)
    /\ UNCHANGED << gateway, tools_pending, history, handler, c2s, ws >>

\* asyncio.gather returns once both loops have finished; the async-with
\* blocks exit and _websocket_handler returns ws
handler_returns(s) ==
    /\ handler[s] = "relaying"
    /\ c2s[s] = "done" /\ s2c[s] = "done"
    /\ handler' = [handler EXCEPT ![s] = "returned"]
    /\ ws' = [ws EXCEPT ![s] = "closed"]
    /\ target_ws' = [target_ws EXCEPT ![s] = "closed"]
    /\ Quiet("handler_returns", s)
    /\ UNCHANGED << gateway, tools_pending, history, c2s, s2c >>

\* One relay session at a time, either backend, the whole vocabulary.
Next ==
    \/ websocket_handler("s1")
    \/ from_server_to_client("s1")
    \/ from_client_to_server("s1")
    \/ from_client_to_voice_live("s1")
    \/ from_voice_live_to_client("s1")
    \/ client_closes("s1")
    \/ upstream_closes("s1")
    \/ client_loop_ends("s1")
    \/ server_loop_ends("s1")
    \/ handler_returns("s1")

Spec == Init /\ [][Next]_vars

\* The event loop runs every task that is ready: a loop whose socket is
\* closed leaves its async-for, and asyncio.gather returns once both loops
\* have finished.  What the client and the upstream do is not constrained.
Fairness ==
    /\ WF_vars(client_loop_ends("s1"))
    /\ WF_vars(server_loop_ends("s1"))
    /\ WF_vars(handler_returns("s1"))

SpecFair == Init /\ [][Next]_vars /\ Fairness

\* Two relay sessions, concurrent or successive, on one Legacy-Realtime
\* gateway, exchanging the function-call protocol.
InitShared ==
    /\ vocabulary = "calls"
    /\ tools = << Tool("search", "schema:search") >>
    /\ use_voice_live = FALSE
    /\ config = ServerConfig(None, None, None, None, "shimmer")
    /\ key = "key-1"
    /\ InitSessions

NextShared ==
    \E s \in Sessions :
        \/ websocket_handler(s)
        \/ from_server_to_client(s)
        \/ from_client_to_server(s)
        \/ client_closes(s)
        \/ upstream_closes(s)
        \/ client_loop_ends(s)
        \/ server_loop_ends(s)
        \/ handler_returns(s)

SpecShared == InitShared /\ [][NextShared]_vars

\* One Legacy-Realtime session of a gateway built with a key or with a token
\* credential.
InitAuth ==
    /\ vocabulary = "calls"
    /\ tools = << Tool("search", "schema:search") >>
    /\ use_voice_live = FALSE
    /\ config = ServerConfig(None, None, None, None, "shimmer")
    /\ key \in Keys
    /\ InitSessions

NextAuth ==
    \/ websocket_handler("s1")
    \/ from_server_to_client("s1")
    \/ from_client_to_server("s1")
    \/ client_closes("s1")
    \/ upstream_closes("s1")
    \/ client_loop_ends("s1")
    \/ server_loop_ends("s1")
    \/ handler_returns("s1")

SpecAuth == InitAuth /\ [][NextAuth]_vars

\* One Legacy-Realtime session exchanging the function-call protocol, with
\* the history of its calls kept.
InitOrder ==
    /\ vocabulary = "order"
    /\ tools \in Registries
    /\ use_voice_live = FALSE
    /\ config = ServerConfig(None, None, None, None, "shimmer")
    /\ key = "key-1"
    /\ InitSessions

SpecOrder == InitOrder /\ [][NextAuth]_vars

\* ================================================================ claims
\* the JSON message of the frame the last step handled
Message == json_loads(event.frame.data)

\* the last step was a forwarding-loop iteration on an upstream text message
UpstreamStep ==
    /\ event.op \in {"from_server_to_client", "from_voice_live_to_client"}
    /\ event.frame.type = "TEXT"
    /\ Message # JsonNull

\* the last step was a forwarding-loop iteration on a client text message
ClientStep ==
    /\ event.op \in {"from_client_to_server", "from_client_to_voice_live"}
    /\ event.frame.type = "TEXT"
    /\ Message # JsonNull

TypeOf(value) == IF "type" \in DOMAIN value THEN value.type ELSE None

\* an event of a function-call lifecycle
LifecycleEvent(message) ==
    \/ /\ message.type \in {"response.output_item.added", "conversation.item.created",
                            "response.output_item.done"}
       /\ IsFunctionCallItem(message)
    \/ message.type \in {"response.function_call_arguments.delta",
                         "response.function_call_arguments.done"}

IsToolResponse(data) == TypeOf(json_loads(data)) = "extension.middle_tier_tool_response"

\* C1: while a function-call lifecycle is relayed, the client gets nothing for
\* the added / created / arguments events, and for the output_item.done event
\* at most one message, an extension.middle_tier_tool_response, and that only
\* when the tool's result has destination TO_CLIENT.
C1_LifecycleHiddenFromClient ==
    (UpstreamStep /\ LifecycleEvent(Message)) =>
        /\ Len(client_sent) <= 1
        /\ \A i \in DOMAIN client_sent : IsToolResponse(client_sent[i])
        /\ client_sent # <<>> =>
              /\ Message.type = "response.output_item.done"
              /\ result # Nothing
              /\ result[1].destination = TO_CLIENT

C1_Witness ==
    /\ UpstreamStep /\ event.op = "from_server_to_client"
    /\ Message.type = "response.output_item.done" /\ IsFunctionCallItem(Message)
    /\ result # Nothing /\ result[1].destination = TO_CLIENT
    /\ Len(client_sent) = 1 /\ IsToolResponse(client_sent[1])

\* a function-call completion event, in either backend's vocabulary
CompletionEvent ==
    /\ UpstreamStep
    /\ \/ /\ event.op = "from_server_to_client"
          /\ Message.type = "response.output_item.done" /\ IsFunctionCallItem(Message)
       \/ /\ event.op = "from_voice_live_to_client"
          /\ Message.type = "function_call"

CompletedCallId == IF Message.type = "function_call" THEN Message.call_id
                   ELSE Message.item.call_id
CompletedName == IF Message.type = "function_call" THEN Message.name
                 ELSE Message.item.name

\* data is a function-call output for call_id carrying text
IsOutputFor(data, call_id, text) ==
    LET m == json_loads(data)
    IN \/ /\ TypeOf(m) = "conversation.item.create"
          /\ m.item.type = "function_call_output"
          /\ m.item.call_id = call_id /\ m.item.output = text
       \/ /\ TypeOf(m) = "function_result"
          /\ m.call_id = call_id /\ m.result = text

\* C2: a completion event whose tool returned sends exactly one function-call
\* output upstream for that call id; its text is the result's text for a
\* TO_SERVER result and empty for a TO_CLIENT result.
C2_OneOutputClientTextWithheld ==
    (CompletionEvent /\ result # Nothing) =>
        /\ Len(server_sent) = 1
        /\ IsOutputFor(server_sent[1], CompletedCallId,
                       IF result[1].destination = TO_SERVER
                       THEN to_text(result[1]) ELSE "")

\* C3: a session that announced call c (conversation.item.created) and got no
\* response.done since, on output_item.done for c naming a registered tool
\* that returns a TO_CLIENT result, sends the (connected) client exactly one extension
\* message, carrying the previous_item_id it registered for c, the function
\* name and the result text.
C3_ToolResponseCarriesRegisteredPrevious ==
    ( /\ UpstreamStep /\ event.op = "from_server_to_client"
      /\ Message.type = "response.output_item.done" /\ IsFunctionCallItem(Message)
      /\ Message.item.call_id \in DOMAIN session_pending[event.session]
      /\ Message.item.name \in ToolNames(tools)
      /\ ArgumentsParse(Message.item.arguments)
      /\ raised \notin {"Exception", "ConnectionResetError"}
      /\ result # Nothing => result[1].destination = TO_CLIENT ) =>
        /\ result # Nothing
        /\ client_sent =
             << ToolResponse(session_pending[event.session][Message.item.call_id],
                             Message.item.name, result[1]) >>

\* C4: after a response.done is handled the pending-call table is empty; a
\* response.create went upstream exactly once if the table was non-empty
\* before, and nothing went upstream if it was empty.
C4_ResponseDoneClearsAndContinues ==
    (UpstreamStep /\ Message.type = "response.done") =>
        /\ DictLen(tools_pending) = 0
        /\ DictLen(pending_before) > 0 => server_sent = << ResponseCreate >>
        /\ DictLen(pending_before) = 0 => server_sent = <<>>

C4_Witness ==
    /\ UpstreamStep /\ Message.type = "response.done"
    /\ DictLen(pending_before) > 0
    /\ DictLen(tools_pending) = 0
    /\ server_sent = << ResponseCreate >>

NotFunctionCall(output) == output.type # "function_call"

\* C5: the response.done forwarded to the client has an output list that is
\* the original's without its function_call entries, the others in their
\* order; without function_call entries the frame is forwarded as it came.
C5_ResponseDoneFiltered ==
    ( /\ UpstreamStep /\ event.op = "from_server_to_client"
      /\ Message.type = "response.done" /\ "response" \in DOMAIN Message
      /\ raised = "none" ) =>
        /\ Len(client_sent) = 1
        /\ json_loads(client_sent[1]).response.output =
              SelectSeq(Message.response.output, NotFunctionCall)
        /\ (\A i \in DOMAIN Message.response.output :
                NotFunctionCall(Message.response.output[i]))
              => client_sent[1] = event.frame.data

\* C6: a client session.update goes upstream (while the upstream socket is
\* connected) with the registry's schemas as
\* its tool list (whatever the client proposed) and tool_choice "none" iff
\* the registry is empty, "auto" otherwise.
C6_SessionUpdateToolsFromRegistry ==
    ( /\ ClientStep /\ Message.type = "session.update"
      /\ "session" \in DOMAIN Message
      /\ raised # "ConnectionResetError" ) =>
        /\ Len(server_sent) = 1
        /\ LET session == json_loads(server_sent[1]).session
           IN /\ "tools" \in DOMAIN session
              /\ session.tools = ToolSchemas(tools)
              /\ "tool_choice" \in DOMAIN session
              /\ session.tool_choice = (IF Len(tools) = 0 THEN "none" ELSE "auto")

\* C7: whatever a step sends the client, a session.created among it has empty
\* instructions, no tools, tool_choice "none", no max_response_output_tokens
\* and the gateway's voice_choice as voice.
C7_SessionCreatedRedacted ==
    \A i \in DOMAIN client_sent :
        TypeOf(json_loads(client_sent[i])) = "session.created" =>
            LET session == json_loads(client_sent[i]).session
            IN /\ session.instructions = ""
               /\ session.tools = <<>>
               /\ session.tool_choice = "none"
               /\ session.max_response_output_tokens = None
               /\ session.voice = config.voice_choice

C7_Witness ==
    /\ UpstreamStep /\ Message.type = "session.created"
    /\ Message.session.instructions # "" /\ Message.session.tools # <<>>
    /\ Len(client_sent) = 1
    /\ TypeOf(json_loads(client_sent[1])) = "session.created"
    /\ json_loads(client_sent[1]).session.voice = "shimmer"

\* C8: the pending-call table a session works on is its own: empty when the
\* session starts, and while the session relays holding exactly the calls
\* the session announced itself since its last response.done.
C8_TableScopedToSession ==
    /\ event.op = "websocket_handler" => DictLen(tools_pending) = 0
    /\ \A s \in Sessions :
          handler[s] = "relaying" => tools_pending = session_pending[s]

\* C9: a completion event naming a tool the registry does not hold leaves the
\* upstream loop running and sends upstream a function-call output with
\* empty text for its call id.
C9_UnknownToolAnswered ==
    ( /\ CompletionEvent
      /\ CompletedName \notin ToolNames(tools)
      /\ event.op = "from_server_to_client"
            => Message.item.call_id \in DOMAIN pending_before ) =>
        /\ raised = "none"
        /\ s2c[event.session] = "running"
        /\ Len(server_sent) = 1
        /\ IsOutputFor(server_sent[1], CompletedCallId, "")

\* C10: an output_item.done for a call id the table does not hold leaves the
\* upstream loop running, sends the client nothing and sends upstream a
\* function-call output with empty text for that call id.
C10_UnmatchedCallAnswered ==
    ( /\ UpstreamStep /\ event.op = "from_server_to_client"
      /\ Message.type = "response.output_item.done" /\ IsFunctionCallItem(Message)
      /\ Message.item.call_id \notin DOMAIN pending_before ) =>
        /\ raised = "none"
        /\ s2c[event.session] = "running"
        /\ client_sent = <<>>
        /\ Len(server_sent) = 1
        /\ IsOutputFor(server_sent[1], Message.item.call_id, "")

\* an output_item.done of a registered call for a registered tool whose
\* invocation failed: the arguments did not parse, or the tool raised
ToolFailed ==
    /\ CompletionEvent /\ event.op = "from_server_to_client"
    /\ CompletedName \in ToolNames(tools)
    /\ CompletedCallId \in DOMAIN pending_before
    /\ result = Nothing

\* data is a function-call output for call_id carrying some text
IsFailureOutputFor(data, call_id) ==
    LET m == json_loads(data)
    IN \/ /\ TypeOf(m) = "conversation.item.create"
          /\ m.item.type = "function_call_output"
          /\ m.item.call_id = call_id /\ m.item.output # ""
       \/ /\ TypeOf(m) = "function_result"
          /\ m.call_id = call_id /\ m.result # ""

\* C11: when the invocation of a registered tool fails, the upstream loop
\* keeps running, the client is sent nothing, and one function-call output
\* carrying a failure text goes upstream for the call id.
C11_ToolFailureReported ==
    ToolFailed =>
        /\ raised = "none"
        /\ s2c[event.session] = "running"
        /\ client_sent = <<>>
        /\ Len(server_sent) = 1
        /\ IsFailureOutputFor(server_sent[1], CompletedCallId)

\* the session of s is Closed: both forwarding loops finished, handler returned
Closed(s) == handler[s] = "returned" /\ c2s[s] = "done" /\ s2c[s] = "done"

TeardownStep(s) == client_loop_ends(s) \/ server_loop_ends(s) \/ handler_returns(s)

\* C13: once the upstream socket of a relaying session is closed while the
\* client socket is open, the gateway can always go on tearing the session
\* down by itself: it never has to wait for the client to close or send.
C13_UpstreamCloseTearsDown ==
    \A s \in Sessions :
        (handler[s] = "relaying" /\ target_ws[s] = "closed" /\ ws[s] = "open")
            => ENABLED TeardownStep(s)

\* the server-enforced session fields, each with the gateway's value for it
Enforced ==
    [instructions |-> config.system_message,
     temperature |-> config.temperature,
     max_response_output_tokens |-> config.max_tokens,
     disable_audio |-> config.disable_audio,
     voice |-> config.voice_choice]

\* a client session.update relayed by _process_message_to_server
SessionUpdateStep ==
    /\ ClientStep /\ event.op = "from_client_to_server"
    /\ Message.type = "session.update" /\ "session" \in DOMAIN Message
    /\ raised = "none"

Recognized(message) ==
    IF event.op = "from_voice_live_to_client"
    THEN message.type \in {"audio_output", "text_response", "function_call"}
    ELSE \/ message.type \in {"session.created", "response.done",
                               "response.function_call_arguments.delta",
                               "response.function_call_arguments.done"}
         \/ /\ message.type \in {"response.output_item.added",
                                  "response.output_item.done"}
            /\ IsFunctionCallItem(message)
         \/ /\ message.type = "conversation.item.created"
            /\ "item" \in DOMAIN message
            /\ message.item.type \in {"function_call", "function_call_output"}

\* C15: a text message of a type the gateway does not act on goes to the
\* opposite side once and as it came (the opposite socket being connected):
\* from the client every type but session.update, from the upstream every
\* type outside the rule table, on either backend.
C15_UnrecognizedPassedThrough ==
    /\ (ClientStep /\ Message.type # "session.update"
          /\ raised # "ConnectionResetError")
            => (server_sent = << event.frame.data >> /\ client_sent = <<>>)
    /\ (UpstreamStep /\ ~Recognized(Message)
          /\ raised # "ConnectionResetError")
            => (client_sent = << event.frame.data >> /\ server_sent = <<>>)

\* the kinds of upstream message the inbound transform suppresses
SuppressedKind(message) ==
    \/ LifecycleEvent(message)
    \/ /\ message.type = "conversation.item.created"
       /\ "item" \in DOMAIN message
       /\ message.item.type = "function_call_output"

\* C16: whatever the pending-call table holds, the inbound transform ends
\* normally on a message of a suppressed kind and the message is not
\* forwarded: the client gets at most the tool's extension message.
C16_SuppressedKindStaysSuppressed ==
    ( /\ UpstreamStep /\ event.op = "from_server_to_client"
      /\ SuppressedKind(Message)
      /\ raised # "ConnectionResetError" ) =>
        /\ raised = "none"
        /\ \A i \in DOMAIN client_sent : IsToolResponse(client_sent[i])

\* an iteration of one of the forwarding loops of session s
RelayStep(s) ==
    \/ from_server_to_client(s) \/ from_client_to_server(s)
    \/ from_voice_live_to_client(s) \/ from_client_to_voice_live(s)

\* C17: a ConnectionResetError raised in a forwarding loop makes the handler
\* return as on a normal end, and a session whose handler has returned has
\* both sockets closed and no loop that can relay another frame.
C17_ResetEndsSessionNormally ==
    /\ raised = "ConnectionResetError" => handler[event.session] = "returned"
    /\ \A s \in Sessions :
          handler[s] = "returned" =>
              /\ ws[s] = "closed" /\ target_ws[s] = "closed"
              /\ ~ENABLED RelayStep(s)

C17_Witness ==
    /\ raised = "ConnectionResetError"
    /\ event.op = "from_server_to_client"
    /\ handler[event.session] = "returned"
    /\ s2c[event.session] = "raised" /\ c2s[event.session] = "running"
    /\ ws[event.session] = "closed" /\ target_ws[event.session] = "closed"

\* the last step was a loop iteration on a frame that is not TEXT
NonTextStep == event.frame.type = "BINARY"

\* C18: a loop iteration on a non-text frame sends nothing to either side,
\* runs no transform (no tool result, no change of the pending-call table, no
\* exception), and leaves the loop running and able to take its next frame.
C18_NonTextDropped ==
    NonTextStep =>
        /\ server_sent = <<>> /\ client_sent = <<>>
        /\ result = Nothing /\ raised = "none"
        /\ tools_pending = pending_before
        /\ event.op \in {"from_server_to_client", "from_voice_live_to_client"} =>
              /\ s2c[event.session] = "running"
              /\ ENABLED (from_server_to_client(event.session)
                            \/ from_voice_live_to_client(event.session))
        /\ event.op \in {"from_client_to_server", "from_client_to_voice_live"} =>
              /\ c2s[event.session] = "running"
              /\ ENABLED (from_client_to_server(event.session)
                            \/ from_client_to_voice_live(event.session))

C18_Witness ==
    /\ NonTextStep
    /\ event.op = "from_server_to_client"
    /\ DictLen(tools_pending) > 0
    /\ s2c[event.session] = "running" /\ c2s[event.session] = "running"

\* C19: a Legacy-Realtime handshake made for an inbound request that carries
\* x-ms-client-request-id has that header with the request's value, next to
\* the api-key header (key mode) or the Authorization header (token mode).
C19_RequestIdForwarded ==
    ( /\ event.op = "websocket_handler" /\ ~use_voice_live
      /\ handshake.request_id # None ) =>
        /\ "x-ms-client-request-id" \in DOMAIN handshake.headers
        /\ handshake.headers["x-ms-client-request-id"] = handshake.request_id
        /\ IF key # None
           THEN /\ "api-key" \in DOMAIN handshake.headers
                /\ handshake.headers["api-key"] = key
           ELSE /\ "Authorization" \in DOMAIN handshake.headers
                /\ handshake.headers["Authorization"] = "Bearer " \o token_provider

\* the step that leads to the primed state handled upstream message type t
\* on the Legacy-Realtime backend
Handled(t) ==
    /\ event'.op = "from_server_to_client" /\ event'.frame.type = "TEXT"
    /\ json_loads(event'.frame.data) # JsonNull
    /\ json_loads(event'.frame.data).type = t

\* what a step may do to the entry of call id c
EntryStep(c) ==
    /\ (c \in DOMAIN tools_pending /\ c \in DOMAIN tools_pending')
          => tools_pending'[c] = tools_pending[c]
    /\ (c \in DOMAIN tools_pending /\ c \notin DOMAIN tools_pending')
          => /\ Handled("response.done")
             /\ tools_pending' = EmptyDict
    /\ (c \notin DOMAIN tools_pending /\ c \in DOMAIN tools_pending')
          => /\ Handled("conversation.item.created")
             /\ IsFunctionCallItem(json_loads(event'.frame.data))
             /\ tools_pending'[c] =
                   RTToolCall(c, json_loads(event'.frame.data).previous_item_id)

\* C20: the entry of a registered call id is left as it is by every step (a
\* repeated announcement included) until a response.done removes it with
\* all others; an entry appears only by an announcement of its call id; and
\* the lookup of an output_item.done returns the entry the table holds then,
\* nothing when it holds none.
C20_RegisteredOnceUntilCleared ==
    /\ [][\A c \in CallIds : EntryStep(c)]_vars
    /\ []((UpstreamStep /\ event.op = "from_server_to_client"
            /\ Message.type = "response.done") => tools_pending = EmptyDict)
    /\ []((CompletionEvent /\ event.op = "from_server_to_client") =>
            IF CompletedCallId \in DOMAIN pending_before
            THEN \A i \in DOMAIN client_sent :
                    json_loads(client_sent[i]).previous_item_id =
                        pending_before[CompletedCallId].previous_id
            ELSE raised = "KeyError" /\ client_sent = <<>> /\ server_sent = <<>>)

C20_Witness ==
    /\ UpstreamStep /\ event.op = "from_server_to_client"
    /\ Message.type = "conversation.item.created" /\ IsFunctionCallItem(Message)
    /\ Message.item.call_id \in DOMAIN pending_before
    /\ Message.previous_item_id # pending_before[Message.item.call_id].previous_id
    /\ tools_pending = pending_before

\* the step that leads to the primed state is the upstream loop of session s
\* handling a response.done and asking for a new response
AsksNewResponse(s) ==
    /\ Handled("response.done") /\ event'.session = s
    /\ \E i \in DOMAIN server_sent' : server_sent'[i] = ResponseCreate

\* C21: the upstream loop of a session handles one frame per step, in order:
\* what a step sends upstream belongs to the frame of that step (a
\* function-call output only to an output_item.done of its call id, a
\* response.create only to a response.done); when a response.done makes the
\* session ask for a new response, every call completed since the response
\* began has had its output sent already; and no output is sent for a call
\* whose registration a response.done of the session has cleared.
C21_HandledInOrder ==
    /\ [][\A s \in Sessions :
            AsksNewResponse(s) =>
                call_history[s].completed \subseteq call_history[s].answered]_vars
    /\ []((UpstreamStep /\ event.op = "from_server_to_client") =>
            /\ OutputCallIds(server_sent) \cap call_history[event.session].cleared = {}
            /\ OutputCallIds(server_sent) \subseteq
                  (IF CompletionEvent THEN {CompletedCallId} ELSE {})
            /\ (\E i \in DOMAIN server_sent : server_sent[i] = ResponseCreate)
                  => (Message.type = "response.done" /\ Len(server_sent) = 1))

\* an output_item.done handled for a call whose registration a
\* response.done of the session has cleared: nothing is sent for it
C21_Witness ==
    /\ CompletionEvent /\ event.op = "from_server_to_client"
    /\ CompletedCallId \in call_history[event.session].cleared
    /\ CompletedCallId \notin DOMAIN pending_before
    /\ server_sent = <<>> /\ raised = "KeyError"

====
